---- MODULE Spec2Model ----
(***************************************************************************)
(* A model of the two Lambda handlers of the live-call-analytics stack:    *)
(*   - voice_tone_processor/lambda_function.py  (Chime voice-tone events)  *)
(*   - call_event_processor/lambda_function.py  (transcript batches)       *)
(*                                                                         *)
(* Python values are modelled as follows.                                  *)
(*   dict            a function whose DOMAIN is the set of keys present    *)
(*   None / a value  the sequences << >> and << v >>                       *)
(*   float           an IEEE-754 binary64 number: sign, 53-bit mantissa    *)
(*                   (least significant bit first) and the exponent of     *)
(*                   the least significant bit; every operation rounds     *)
(*                   to nearest, ties to even, as CPython's does           *)
(*   a timestamp     the seconds since 2024-01-01T00:00:00 and the digits  *)
(*                   of the fraction as written in the string              *)
(***************************************************************************)
EXTENDS Integers, Sequences, FiniteSets, TLC

(***************************************************************************)
(* Natural numbers of any size, as sequences of limbs in base 2^10, least  *)
(* significant limb first, without high zero limbs (TLC's integers are 32  *)
(* bits wide, a binary64 mantissa is 53).                                  *)
(***************************************************************************)
LimbBits == 10

Base == 2 ^ LimbBits

NTrim(a) ==
    IF \A i \in 1..Len(a) : a[i] = 0 THEN <<>>
    ELSE SubSeq(a, 1, CHOOSE i \in 1..Len(a) :
                         a[i] # 0 /\ \A k \in (i + 1)..Len(a) : a[k] = 0)

Limb(a, i) == IF i >= 1 /\ i <= Len(a) THEN a[i] ELSE 0

MaxOf(x, y) == IF x >= y THEN x ELSE y

\* the limbs of an int 0 <= n < 2^31
NFromInt(n) == NTrim([i \in 1..4 |-> (n \div (Base ^ (i - 1))) % Base])

RECURSIVE NAddFrom(_, _, _, _, _)
NAddFrom(a, b, i, carry, acc) ==
    IF i > MaxOf(Len(a), Len(b)) THEN Append(acc, carry)
    ELSE LET t == Limb(a, i) + Limb(b, i) + carry
         IN  IF t >= 0 /\ Len(acc) >= 0
             THEN NAddFrom(a, b, i + 1, t \div Base, Append(acc, t % Base))
             ELSE acc

NAdd(a, b) == NTrim(NAddFrom(a, b, 1, 0, <<>>))

RECURSIVE NSubFrom(_, _, _, _, _)
NSubFrom(a, b, i, borrow, acc) ==
    IF i > Len(a) THEN acc
    ELSE LET t == Limb(a, i) - Limb(b, i) - borrow
         IN  IF t < 0 /\ Len(acc) >= 0
             THEN NSubFrom(a, b, i + 1, 1, Append(acc, t + Base))
             ELSE NSubFrom(a, b, i + 1, 0, Append(acc, t))

\* a - b for a >= b
NSub(a, b) == NTrim(NSubFrom(a, b, 1, 0, <<>>))

\* a < b
NLess(a, b) ==
    \E i \in 1..MaxOf(Len(a), Len(b)) :
        /\ Limb(a, i) < Limb(b, i)
        /\ \A k \in (i + 1)..MaxOf(Len(a), Len(b)) : Limb(a, k) = Limb(b, k)

RECURSIVE NMulFrom(_, _, _, _, _)
NMulFrom(a, k, i, carry, acc) ==
    IF i > Len(a) THEN Append(acc, carry)
    ELSE LET t == a[i] * k + carry
         IN  IF t >= 0 /\ Len(acc) >= 0
             THEN NMulFrom(a, k, i + 1, t \div Base, Append(acc, t % Base))
             ELSE acc

\* a * k for 0 <= k <= Base
NMulSmall(a, k) == NTrim(NMulFrom(a, k, 1, 0, <<>>))

\* a * 2^bits
NShl(a, bits) ==
    IF a = <<>> THEN <<>>
    ELSE [i \in 1..(bits \div LimbBits) |-> 0] \o NMulSmall(a, 2 ^ (bits % LimbBits))

\* bit i of a, the lowest being bit 0
NBit(a, i) == (Limb(a, (i \div LimbBits) + 1) \div (2 ^ (i % LimbBits))) % 2

\* the number of bits of a # 0
NBitLen(a) ==
    LimbBits * (Len(a) - 1)
        + (CHOOSE k \in 1..LimbBits : 2 ^ (k - 1) <= a[Len(a)] /\ a[Len(a)] < 2 ^ k)

\* a \div 2^bits
NShr(a, bits) ==
    LET q == bits \div LimbBits
        r == bits % LimbBits
    IN  NTrim([i \in 1..(Len(a) - q) |->
                 (Limb(a, i + q) \div (2 ^ r))
                     + (Limb(a, i + q + 1) % (2 ^ r)) * (2 ^ (LimbBits - r))])

(***************************************************************************)
(* binary64.  A number is [s, m, e]: (-1)^s * m * 2^e with m a mantissa of *)
(* exactly MantissaBits bits; zero is [s |-> 0, m |-> << >>, e |-> 0].     *)
(* The magnitudes met here are far from the subnormal and the infinite     *)
(* range.                                                                  *)
(***************************************************************************)
MantissaBits == 53

DZero == [s |-> 0, m |-> <<>>, e |-> 0]

\* (-1)^s * a * 2^e, plus a non-zero amount below one unit of a when sticky,
\* rounded to nearest, ties to even
Round(s, a0, e, sticky) ==
    LET a == NTrim(a0)
        L == NBitLen(a)
    IN  IF a = <<>> THEN DZero
        ELSE IF L <= MantissaBits
        THEN [s |-> s, m |-> NShl(a, MantissaBits - L), e |-> e - (MantissaBits - L)]
        ELSE LET drop  == L - MantissaBits
                 kept  == NShr(a, drop)
                 guard == NBit(a, drop - 1)
                 rest  == sticky \/ \E i \in 0..(drop - 2) : NBit(a, i) = 1
                 up    == guard = 1 /\ (rest \/ NBit(kept, 0) = 1)
                 r     == IF up THEN NAdd(kept, <<1>>) ELSE kept
             IN  IF NBitLen(r) > MantissaBits
                 THEN [s |-> s, m |-> NShr(r, 1), e |-> e + drop + 1]
                 ELSE [s |-> s, m |-> r, e |-> e + drop]

\* float(n) for an int n
DFromInt(n) ==
    IF n < 0 THEN Round(1, NFromInt(-n), 0, FALSE) ELSE Round(0, NFromInt(n), 0, FALSE)

RECURSIVE FracLimbs(_, _, _, _)
\* the next k limbs of r / d (0 <= r < d < 2^21) after the binary point and
\* the remainder left: <<limbs, least significant first; remainder>>
FracLimbs(r, d, k, acc) ==
    IF k = 0 THEN <<acc, r>>
    ELSE IF r >= 0 /\ Len(acc) >= 0
    THEN FracLimbs((r * Base) % d, d, k - 1, <<(r * Base) \div d>> \o acc)
    ELSE <<acc, r>>

\* int / int, Python's true division: the quotient correctly rounded.
\* |n| < 2^31 and 0 < d < 2^21; the quotient is developed to 8 limbs after
\* the binary point, enough for 53 bits below the leading 1 of any
\* n / d >= 2^-21.
DTrueDiv(n, d) ==
    LET a  == IF n < 0 THEN -n ELSE n
        fb == FracLimbs(a % d, d, 8, <<>>)
    IN  Round(IF n < 0 THEN 1 ELSE 0, fb[1] \o NFromInt(a \div d),
              -(8 * LimbBits), fb[2] # 0)

\* x * k for a float x and an int 0 < k <= 2^10 (k is exact as a float)
DMulInt(x, k) == IF x.m = <<>> THEN DZero ELSE Round(x.s, NMulSmall(x.m, k), x.e, FALSE)

DNeg(x) == IF x.m = <<>> THEN x ELSE [x EXCEPT !.s = 1 - x.s]

DAdd(x, y) ==
    IF x.m = <<>> THEN y
    ELSE IF y.m = <<>> THEN x
    ELSE LET e  == IF x.e <= y.e THEN x.e ELSE y.e
             ax == NShl(x.m, x.e - e)
             ay == NShl(y.m, y.e - e)
         IN  IF x.s = y.s THEN Round(x.s, NAdd(ax, ay), e, FALSE)
             ELSE IF NLess(ax, ay) THEN Round(y.s, NSub(ay, ax), e, FALSE)
             ELSE Round(x.s, NSub(ax, ay), e, FALSE)

DSub(x, y) == DAdd(x, DNeg(y))

\* x < y
DLess(x, y) ==
    LET d == DSub(x, y) IN d.m # <<>> /\ d.s = 1

DLeq(x, y) == ~DLess(y, x)

(***************************************************************************)
(* Python dicts and optional values.                                       *)
(***************************************************************************)
EmptyDict == [k \in {} |-> k]

DictSet(d, k, v) == [j \in (DOMAIN d) \cup {k} |-> IF j = k THEN v ELSE d[j]]

None == <<>>

Some(v) == <<v>>

(***************************************************************************)
(* The voice tone processor.                                               *)
(***************************************************************************)
VARIABLES
    dynamoTable,      \* the durable table: <<PK, SK>> -> item
    chimeTasks,       \* the voice tone analysis tasks Chime has started:
                      \* task id -> ClientRequestToken
    kinesis,          \* the records put onto the stream, in order
    voiceTaskCache,   \* per container: task id -> call id
    callDetailCache,  \* per container: call id -> call record
    last,             \* the last invocation of lambda_handler: its
                      \* container, event, outcome and the calls it made,
                      \* in order (None after a step of the environment)
    recorded          \* history: the <<task id, call id>> that
                      \* put_voice_task has recorded

\* the stream of the model holds at most MaxStream records
MaxStream == 1

Containers == {"A", "B"}

CallIds == {"call1", "call2"}

TaskId(i) == "task" \o ToString(i)

\* the ids Chime gives its tasks, in the order it starts them
TaskIds == {TaskId(1), TaskId(2)}

KINESIS_STREAM_NAME == "CallDataStream"

\* dynamoTable.get_item(Key=...): the response holds 'Item' only when the
\* key is present
get_item(table, key) ==
    IF key \in DOMAIN table THEN [Item |-> table[key]] ELSE EmptyDict

\* dynamoTable.put_item(Item=...): creates or replaces the item of that key
put_item(table, item) == DictSet(table, <<item.PK, item.SK>>, item)

(***************************************************************************)
(* One invocation runs on a frame w: the table, the stream, Chime, the     *)
(* two caches of its container, the calls made so far (ops), whether an    *)
(* exception is propagating (raised) and the value returned by the last    *)
(* function called (ret).  fault names the service call that fails in      *)
(* this invocation, if any.  ops lists the service calls and the cache     *)
(* writes, each with the key it is about.                                  *)
(***************************************************************************)
Op(w, name, key) == [w EXCEPT !.ops = Append(@, [op |-> name, key |-> key])]

Raise(w) == [w EXCEPT !.raised = TRUE, !.ret = None]

Return(w, v) == [w EXCEPT !.ret = Some(v)]

get_call_record(w, callId, fault) ==
    IF callId \in DOMAIN w.cdc THEN Return(w, w.cdc[callId])
    ELSE LET pk == "cd#" \o callId
             sk == "BOTH"
             w1 == Op(w, "get_item", pk)
             response == get_item(w.table, <<pk, sk>>)
         IN  IF fault = "get_item" THEN Raise(w1)
             ELSE IF "Item" \notin DOMAIN response THEN Raise(w1)
             ELSE Return([Op(w1, "callDetailCache.set", callId) EXCEPT
                             !.cdc = DictSet(@, callId, response.Item)],
                         response.Item)

\* stores the item under the sort key "sk = callId" of line 34
put_voice_task_sk_is_callId(w, voiceToneAnalysisTaskId, callId, fault) ==
    LET pk == "vta#" \o voiceToneAnalysisTaskId
        sk == callId
        w1 == Op(w, "put_item", pk)
        item == [PK |-> pk, SK |-> sk,
                 VoiceToneAnalysisTaskId |-> voiceToneAnalysisTaskId,
                 CallId |-> callId]
    IN  IF fault = "put_item" THEN Raise(w1)
        ELSE [Op(w1, "voiceTaskCache.set", voiceToneAnalysisTaskId) EXCEPT
                 !.table = put_item(@, item),
                 !.vtc = DictSet(@, voiceToneAnalysisTaskId, callId),
                 !.ret = None]

\* saves to the local cache before the put to the table
put_voice_task_cache_first(w, voiceToneAnalysisTaskId, callId, fault) ==
    LET pk == "vta#" \o voiceToneAnalysisTaskId
        w1 == [Op(w, "voiceTaskCache.set", voiceToneAnalysisTaskId) EXCEPT
                  !.vtc = DictSet(@, voiceToneAnalysisTaskId, callId)]
        w2 == Op(w1, "put_item", pk)
        item == [PK |-> pk, SK |-> "VTA",
                 VoiceToneAnalysisTaskId |-> voiceToneAnalysisTaskId,
                 CallId |-> callId]
    IN  IF fault = "put_item" THEN Raise(w2)
        ELSE [w2 EXCEPT !.table = put_item(@, item), !.ret = None]

put_voice_task(w, voiceToneAnalysisTaskId, callId, fault) ==
    LET pk == "vta#" \o voiceToneAnalysisTaskId
        w1 == Op(w, "put_item", pk)
        item == [PK |-> pk, SK |-> "VTA",
                 VoiceToneAnalysisTaskId |-> voiceToneAnalysisTaskId,
                 CallId |-> callId]
    IN  IF fault = "put_item" THEN Raise(w1)
        ELSE [Op(w1, "voiceTaskCache.set", voiceToneAnalysisTaskId) EXCEPT
                 !.table = put_item(@, item),
                 !.vtc = DictSet(@, voiceToneAnalysisTaskId, callId),
                 !.ret = None]

\* reads the response with .get and caches what it finds before it fails
get_callId_for_voiceTask_caches_miss(w, voiceToneAnalysisTaskId, fault) ==
    IF voiceToneAnalysisTaskId \in DOMAIN w.vtc
    THEN Return(w, w.vtc[voiceToneAnalysisTaskId])
    ELSE LET pk == "vta#" \o voiceToneAnalysisTaskId
             w1 == Op(w, "get_item", pk)
             response == get_item(w.table, <<pk, "VTA">>)
         IN  IF fault = "get_item" THEN Raise(w1)
             ELSE IF "Item" \notin DOMAIN response
             THEN Raise([Op(w1, "voiceTaskCache.set", voiceToneAnalysisTaskId) EXCEPT
                            !.vtc = DictSet(@, voiceToneAnalysisTaskId, "None")])
             ELSE Return([Op(w1, "voiceTaskCache.set", voiceToneAnalysisTaskId) EXCEPT
                             !.vtc = DictSet(@, voiceToneAnalysisTaskId,
                                             response.Item.CallId)],
                         response.Item.CallId)

\* falls back to the table without saving what it read
get_callId_for_voiceTask_no_save(w, voiceToneAnalysisTaskId, fault) ==
    IF voiceToneAnalysisTaskId \in DOMAIN w.vtc
    THEN Return(w, w.vtc[voiceToneAnalysisTaskId])
    ELSE LET pk == "vta#" \o voiceToneAnalysisTaskId
             w1 == Op(w, "get_item", pk)
             response == get_item(w.table, <<pk, "VTA">>)
         IN  IF fault = "get_item" THEN Raise(w1)
             ELSE IF "Item" \notin DOMAIN response THEN Raise(w1)
             ELSE Return(w1, response.Item.CallId)

get_callId_for_voiceTask(w, voiceToneAnalysisTaskId, fault) ==
    IF voiceToneAnalysisTaskId \in DOMAIN w.vtc
    THEN Return(w, w.vtc[voiceToneAnalysisTaskId])
    ELSE LET pk == "vta#" \o voiceToneAnalysisTaskId
             w1 == Op(w, "get_item", pk)
             response == get_item(w.table, <<pk, "VTA">>)
         IN  IF fault = "get_item" THEN Raise(w1)
             ELSE IF "Item" \notin DOMAIN response THEN Raise(w1)
             ELSE Return([Op(w1, "voiceTaskCache.set", voiceToneAnalysisTaskId) EXCEPT
                             !.vtc = DictSet(@, voiceToneAnalysisTaskId,
                                             response.Item.CallId)],
                         response.Item.CallId)


\* Chime answers a start request with the id of a task: a task it started
\* earlier for the same ClientRequestToken, or a new one
ChimeAnswers(chime, token) ==
    {t \in DOMAIN chime : chime[t] = token}
        \cup (IF Cardinality(DOMAIN chime) < Cardinality(TaskIds)
              THEN {TaskId(Cardinality(DOMAIN chime) + 1)} ELSE {})

start_voice_tone_analysis_task(w, detail, fault, answer) ==
    LET w1 == Op(w, "start_voice_tone_analysis_task", detail.callId)
    IN  IF fault = "start_voice_tone_analysis_task" THEN Raise(w1)
        ELSE Return([w1 EXCEPT !.chime = DictSet(@, answer, detail.callId)],
                    [VoiceToneAnalysisTask |-> [VoiceToneAnalysisTaskId |-> answer]])

(***************************************************************************)
(* Timestamps.  strptime(s, '%Y-%m-%dT%H:%M:%S.%fZ') takes one to six      *)
(* digits for %f and reads them as a decimal fraction of a second; any     *)
(* other string raises ValueError.                                         *)
(***************************************************************************)
MicrosPerSecond == 1000000

RECURSIVE DigitsValue(_)
DigitsValue(ds) ==
    IF ds = <<>> THEN 0 ELSE 10 * DigitsValue(SubSeq(ds, 1, Len(ds) - 1)) + ds[Len(ds)]

\* None for a string strptime rejects, else the microseconds since the epoch
\* of the model
strptime(ts) ==
    IF Len(ts.frac) \in 1..6
    THEN Some(ts.sec * MicrosPerSecond + DigitsValue(ts.frac) * 10 ^ (6 - Len(ts.frac)))
    ELSE None

\* timedelta.total_seconds(): microseconds / 10**6
total_seconds(micros) == DTrueDiv(micros, MicrosPerSecond)

MillisPerSecond == 1000

WindowMillis == 5000

\* lines 100-102: the offsets of the segment, from the two datetimes
Offsets(callStartTime, segmentEndTime) ==
    LET endMillis   == DMulInt(total_seconds(segmentEndTime - callStartTime),
                               MillisPerSecond)
        startMillis == DSub(endMillis, DFromInt(WindowMillis))
    IN  [BeginOffsetMillis |-> startMillis, EndOffsetMillis |-> endMillis]

\* str.upper() on the voice tone labels Chime reports
Upper(label) ==
    CASE label = "neutral"  -> "NEUTRAL"
      [] label = "positive" -> "POSITIVE"
      [] label = "negative" -> "NEGATIVE"
      [] OTHER -> label


(***************************************************************************)
(* The events and call records the model draws from.                       *)
(***************************************************************************)
Time(sec, frac) == [sec |-> sec, frac |-> frac]

\* 2024-01-01T00:00:00.000Z, the call start of the spec's scenario
CallStart0 == Time(0, <<0, 0, 0>>)

CallStarts == {CallStart0, Time(4, <<5, 7, 5, 7, 5, 8>>), Time(20, <<0>>), Time(131, <<0, 6, 9>>)}

SegmentEnd10 == Time(10, <<0, 0, 0>>)

SegmentEnds ==
    {SegmentEnd10, Time(3, <<0, 0, 0>>), Time(0, <<0, 0, 0, 0, 0, 0>>),
     Time(5, <<0>>), Time(4, <<9, 9, 9, 9, 9, 9>>), Time(0, <<0, 0, 0, 0, 0, 1>>),
     Time(1, <<0, 0, 1>>), Time(20, <<5>>), Time(25, <<0, 0, 0>>),
     Time(9, <<5, 7, 5, 7, 5, 8>>), Time(140, <<1, 2, 3, 4>>)}

\* strings strptime rejects
BadTimes == {Time(10, <<>>), Time(10, <<0, 0, 0, 0, 0, 0, 0>>)}

SegmentStart5 == Time(5, <<0, 0, 0>>)

CallRecord(callId, start) ==
    [PK |-> "cd#" \o callId, SK |-> "BOTH", CallId |-> callId,
     CallData |-> [callStreamingStartTime |-> start]]

\* json.loads of the CallData string of a call record: its object
json_loads(callData) == callData

ReadyEvent(callId) ==
    [id |-> <<"e", "v", "-", "1">>,
     detail |-> [detailStatus |-> "AnalyticsReady", voiceConnectorId |-> "vc1",
                 transactionId |-> "tx1", callId |-> callId]]

SuccessEvent(taskId, isCaller, label, startTime, endTime) ==
    [id |-> <<"e", "v", "-", "2">>,
     detail |-> [detailStatus |-> "VoiceToneAnalysisSuccessful", taskId |-> taskId,
                 isCaller |-> isCaller,
                 voiceToneAnalysisDetails |->
                     [currentAverageVoiceTone |->
                         [voiceToneLabel |-> label, startTime |-> startTime,
                          endTime |-> endTime]]]]

OtherEvent(taskId, callId) ==
    [id |-> <<"e", "v", "-", "3">>,
     detail |-> [detailStatus |-> "VoiceToneAnalysisFailed", taskId |-> taskId,
                 voiceConnectorId |-> "vc1", transactionId |-> "tx1",
                 callId |-> callId]]

(***************************************************************************)
(* lambda_handler                                                          *)
(***************************************************************************)
\* F applied to the value of v: the statements after an assignment
Then(v, F(_)) == CHOOSE r \in {F(x) : x \in {v}} : TRUE

OnAnalyticsReady(w, detail, fault, answer) ==
    Then(start_voice_tone_analysis_task(w, detail, fault, answer),
         LAMBDA r :
            IF r.raised THEN r
            ELSE put_voice_task(r, r.ret[1].VoiceToneAnalysisTask.VoiceToneAnalysisTaskId,
                                detail.callId, fault))

\* partitions the stream by utterance instead of by call
put_record_by_utterance(w, streamName, data, partitionKey, fault) ==
    LET w1 == Op(w, "put_record", data.UtteranceEvent.UtteranceId)
    IN  IF fault = "put_record" THEN Raise(w1)
        ELSE [w1 EXCEPT !.stream = Append(@, [StreamName |-> streamName, Data |-> data,
                                              PartitionKey |-> data.UtteranceEvent.UtteranceId]),
                        !.ret = None]

put_record(w, streamName, data, partitionKey, fault) ==
    LET w1 == Op(w, "put_record", partitionKey)
    IN  IF fault = "put_record" THEN Raise(w1)
        ELSE [w1 EXCEPT !.stream = Append(@, [StreamName |-> streamName, Data |-> data,
                                              PartitionKey |-> partitionKey]),
                        !.ret = None]

\* lines 84-126, once the call record is there
EmitSegment(w, callRecord, event, fault, now) ==
    LET detail == event.detail
        tone   == detail.voiceToneAnalysisDetails.currentAverageVoiceTone
        callData == json_loads(callRecord.CallData)
        callStartTime == strptime(callData.callStreamingStartTime)
        participant == IF detail.isCaller # TRUE THEN "CALLER_VOICE_SENTIMENT"
                       ELSE "AGENT_VOICE_SENTIMENT"
        sentiment == Upper(tone.voiceToneLabel)
        segmentStartTime == strptime(tone.startTime)
        segmentEndTime == strptime(tone.endTime)
    IN  IF callStartTime = None \/ segmentStartTime = None \/ segmentEndTime = None
        THEN Raise(w)
        ELSE Then(Offsets(callStartTime[1], segmentEndTime[1]),
                  LAMBDA offsets :
                     put_record(w, KINESIS_STREAM_NAME,
                        [EventType |-> "ADD_TRANSCRIPT_SEGMENT",
                         CallId |-> w.callId[1],
                         UtteranceEvent |->
                             [UtteranceId |-> SubSeq(event.id, 4, Len(event.id)),
                              ParticipantRole |-> participant,
                              isPartial |-> FALSE,
                              Transcript |-> "voice tone",
                              Sentiment |-> sentiment,
                              BeginOffsetMillis |-> offsets.BeginOffsetMillis,
                              EndOffsetMillis |-> offsets.EndOffsetMillis],
                         CreatedAt |-> now,
                         UpdatedAt |-> now],
                        w.callId[1], fault))

\* lines 81-126
OnVoiceToneAnalysisSuccessful(w, event, fault, now) ==
    Then(get_callId_for_voiceTask(w, event.detail.taskId, fault),
         LAMBDA w1 :
            IF w1.raised THEN w1
            ELSE Then(get_callId_for_voiceTask([w1 EXCEPT !.callId = w1.ret],
                                               event.detail.taskId, fault),
                 LAMBDA w2 :
                    IF w2.raised THEN w2
                    ELSE Then(get_call_record(w2, w2.ret[1], fault),
                         LAMBDA w3 :
                            IF w3.raised THEN w3
                            ELSE EmitSegment(w3, w3.ret[1], event, fault, now))))

\* starts a task for every status but the successful analysis
Handle_starts_unless_successful(c, event, fault, answer, now) ==
    Then(IF event.detail.detailStatus # "VoiceToneAnalysisSuccessful"
         THEN OnAnalyticsReady(
                  [table |-> dynamoTable, chime |-> chimeTasks, stream |-> kinesis,
                   vtc |-> voiceTaskCache[c], cdc |-> callDetailCache[c],
                   ops |-> <<>>, raised |-> FALSE, ret |-> None, callId |-> None],
                  event.detail, fault, answer)
         ELSE [table |-> dynamoTable, chime |-> chimeTasks, stream |-> kinesis,
               vtc |-> voiceTaskCache[c], cdc |-> callDetailCache[c],
               ops |-> <<>>, raised |-> FALSE, ret |-> None, callId |-> None],
         LAMBDA w1 :
            IF ~w1.raised /\ event.detail.detailStatus = "VoiceToneAnalysisSuccessful"
            THEN OnVoiceToneAnalysisSuccessful(w1, event, fault, now) ELSE w1)

\* the frame lambda_handler ends with, for an event handled by container c
Handle(c, event, fault, answer, now) ==
    Then(IF event.detail.detailStatus = "AnalyticsReady"
         THEN OnAnalyticsReady(
                  [table |-> dynamoTable, chime |-> chimeTasks, stream |-> kinesis,
                   vtc |-> voiceTaskCache[c], cdc |-> callDetailCache[c],
                   ops |-> <<>>, raised |-> FALSE, ret |-> None, callId |-> None],
                  event.detail, fault, answer)
         ELSE [table |-> dynamoTable, chime |-> chimeTasks, stream |-> kinesis,
               vtc |-> voiceTaskCache[c], cdc |-> callDetailCache[c],
               ops |-> <<>>, raised |-> FALSE, ret |-> None, callId |-> None],
         LAMBDA w1 :
            IF ~w1.raised /\ event.detail.detailStatus = "VoiceToneAnalysisSuccessful"
            THEN OnVoiceToneAnalysisSuccessful(w1, event, fault, now) ELSE w1)

lambda_handler(c, event, fault, answer, now) ==
    \E w \in {Handle(c, event, fault, answer, now)} :
        /\ dynamoTable' = w.table
        /\ chimeTasks' = w.chime
        /\ kinesis' = w.stream
        /\ voiceTaskCache' = [voiceTaskCache EXCEPT ![c] = w.vtc]
        /\ callDetailCache' = [callDetailCache EXCEPT ![c] = w.cdc]
        /\ last' = Some([container |-> c, detail |-> event.detail, fault |-> fault,
                         outcome |-> IF w.raised THEN "raised" ELSE "returned",
                         ops |-> w.ops, callId |-> w.callId])
        /\ recorded' =
               IF event.detail.detailStatus = "AnalyticsReady"
               THEN recorded \cup
                        {<<w.ops[i].key, event.detail.callId>> :
                            i \in {j \in 1..Len(w.ops) : w.ops[j].op = "voiceTaskCache.set"}}
               ELSE recorded

(***************************************************************************)
(* The call event processor.                                               *)
(***************************************************************************)
VARIABLES
    environ,                 \* the environment variables of the function
    pc,                      \* "import", "ready", or "import_failed: " and
                             \* the call that raised
    CALL_AUDIO_SOURCE,       \* module global, set by the import
    MUTATION_FUNCTION_NAME,  \* module global, set by the import
    handled                  \* the last invocation of handler: what it passed
                             \* and logged and how it ended (None before)

vars == <<dynamoTable, chimeTasks, kinesis, voiceTaskCache, callDetailCache, last,
          recorded, environ, pc, CALL_AUDIO_SOURCE, MUTATION_FUNCTION_NAME, handled>>

voiceVars == <<dynamoTable, chimeTasks, kinesis, voiceTaskCache, callDetailCache, last,
               recorded>>

transcriptVars == <<environ, pc, CALL_AUDIO_SOURCE, MUTATION_FUNCTION_NAME, handled>>

\* os.getenv(name): None when the variable is not set
getenv(env, name) == IF name \in DOMAIN env THEN Some(env[name]) ELSE None

\* falls back to the transcribe mutation for a key that is not in the dict
dict_get_falls_back(d, key) ==
    IF key # None /\ key[1] \in DOMAIN d THEN Some(d[key[1]])
    ELSE Some("execute_process_transcribe_event_api_mutation")

\* dict.get(key) for an optional key: None when the key is not in the dict
dict_get(d, key) ==
    IF key # None /\ key[1] \in DOMAIN d THEN Some(d[key[1]]) ELSE None

\* dict.get(key, default)
dict_get_default(d, key, default) == IF key \in DOMAIN d THEN d[key] ELSE default

MUTATION_FUNCTION_MAPPING ==
    [label \in {"Demo Asterisk PBX Server", "Chime Voice Connector (SIPREC)",
                "Genesys Cloud Audiohook Web Socket", "Amazon Connect Contact Lens"} |->
        IF label = "Amazon Connect Contact Lens"
        THEN "execute_process_contact_lens_event_api_mutation"
        ELSE "execute_process_transcribe_event_api_mutation"]

\* the import of the module (lines 48-93): environ[...] raises KeyError for
\* a variable that is not set, the parameter store call can fail
ModuleImport(ssmFails) ==
    /\ pc = "import"
    /\ IF "APPSYNC_GRAPHQL_URL" \notin DOMAIN environ
       THEN /\ pc' = "import_failed: environ"
            /\ UNCHANGED <<CALL_AUDIO_SOURCE, MUTATION_FUNCTION_NAME>>
       ELSE /\ CALL_AUDIO_SOURCE' = getenv(environ, "CALL_AUDIO_SOURCE")
            /\ MUTATION_FUNCTION_NAME' =
                   dict_get(MUTATION_FUNCTION_MAPPING, CALL_AUDIO_SOURCE')
            /\ pc' = IF ssmFails THEN "import_failed: get_parameter" ELSE "ready"
    /\ UNCHANGED <<environ, handled>>
    /\ UNCHANGED voiceVars

\* TranscriptStateManager.update_state(input_item): folds the item into the
\* state; the state is modelled as the items folded, in order
StateManagerUpdate(state, item) == Append(state, item)

RECURSIVE FoldItems(_, _)
\* lines 107-111: the inner loop over one result's nested successes
FoldItems(state, items) ==
    IF items = <<>> THEN state
    ELSE FoldItems(IF DOMAIN Head(items) # {} THEN StateManagerUpdate(state, Head(items))
                   ELSE state,
                   Tail(items))

RECURSIVE FoldResults(_, _)
\* lines 103-111: the outer loop over the top-level successes
FoldResults(state, results) ==
    IF results = <<>> THEN state
    ELSE FoldResults(FoldItems(state, dict_get_default(Head(results), "successes", <<>>)),
                     Tail(results))

\* lines 95-115; the state manager starts from the event's state
update_state(event, event_processor_results) ==
    FoldResults(dict_get_default(event, "state", <<>>),
                dict_get_default(event_processor_results, "successes", <<>>))

RECURSIVE LogErrors_no_except(_, _)
\* re-raises an error that is an exception without catching it
LogErrors_no_except(errors, log) ==
    IF errors = <<>> THEN [raised |-> FALSE, log |-> log]
    ELSE LET error == Head(errors)
             log1  == Append(log, <<"error", error.text>>)
         IN  IF error.isException
             THEN [raised |-> TRUE, log |-> log1]
             ELSE LogErrors_no_except(Tail(errors), log1)

RECURSIVE LogErrors(_, _)
\* lines 147-153: what the loop over the top-level errors logs, and whether
\* an exception leaves it
LogErrors(errors, log) ==
    IF errors = <<>> THEN [raised |-> FALSE, log |-> log]
    ELSE LET error == Head(errors)
             log1  == Append(log, <<"error", error.text>>)
         IN  IF error.isException
             \* raise error, caught by "except Exception" right away
             THEN LogErrors(Tail(errors), Append(log1, <<"exception", error.text>>))
             ELSE LogErrors(Tail(errors), log1)

\* lines 117-136: what the batch processor is constructed with (its results
\* are the environment's)
process_event(event) ==
    [api_mutation_fn |-> MUTATION_FUNCTION_NAME, event |-> event]

\* lines 139-166, for the results the batch processor gave
handler(event, event_processor_results) ==
    LET logged == LogErrors(dict_get_default(event_processor_results, "errors", <<>>), <<>>)
    IN  /\ pc = "ready"
        /\ handled' = Some(
               [api_mutation_fn |-> process_event(event).api_mutation_fn,
                event |-> event,
                results |-> event_processor_results,
                log |-> logged.log,
                outcome |-> IF logged.raised THEN "raised" ELSE "returned",
                response |-> IF logged.raised THEN None
                             ELSE Some([state |-> update_state(event, event_processor_results)])])
        /\ UNCHANGED <<environ, pc, CALL_AUDIO_SOURCE, MUTATION_FUNCTION_NAME>>
        /\ UNCHANGED voiceVars


(***************************************************************************)
(* The voice tone processor's specification: containers A and B handle     *)
(* events one invocation at a time over the shared table, stream and       *)
(* Chime; another component writes the call records.                       *)
(***************************************************************************)
Now == "2024-01-01T00:00:11Z"

Events ==
    {ReadyEvent(callId) : callId \in CallIds}
        \cup {SuccessEvent(t, TRUE, "neutral", SegmentStart5, SegmentEnd10) : t \in TaskIds}
        \cup {OtherEvent(TaskId(1), "call1")}

TranscriptIdle ==
    /\ environ = EmptyDict
    /\ pc = "import"
    /\ CALL_AUDIO_SOURCE = None
    /\ MUTATION_FUNCTION_NAME = None
    /\ handled = None

Init ==
    /\ dynamoTable = EmptyDict
    /\ chimeTasks = EmptyDict
    /\ kinesis = <<>>
    /\ voiceTaskCache = [c \in Containers |-> EmptyDict]
    /\ callDetailCache = [c \in Containers |-> EmptyDict]
    /\ last = None
    /\ recorded = {}
    /\ TranscriptIdle

\* the service calls an event can lead to, each of which can fail
FaultsOf(event) ==
    CASE event.detail.detailStatus = "AnalyticsReady" ->
            {"none", "start_voice_tone_analysis_task", "put_item"}
      [] event.detail.detailStatus = "VoiceToneAnalysisSuccessful" ->
            {"none", "get_item", "put_record"}
      [] OTHER -> {"none"}

\* what Chime can answer to the start request of an event, if it makes one
AnswersOf(event) ==
    IF event.detail.detailStatus = "AnalyticsReady"
    THEN ChimeAnswers(chimeTasks, event.detail.callId)
    ELSE {TaskId(1)}

Invoke ==
    \E c \in Containers, event \in Events :
        \E fault \in FaultsOf(event), answer \in AnswersOf(event) :
            /\ event.detail.detailStatus = "VoiceToneAnalysisSuccessful"
                  => Len(kinesis) < MaxStream
            /\ lambda_handler(c, event, fault, answer, Now)
            /\ UNCHANGED transcriptVars

\* the component that owns the call records writes the record of a call
PutCallRecord ==
    \E callId \in CallIds :
        /\ <<"cd#" \o callId, "BOTH">> \notin DOMAIN dynamoTable
        /\ dynamoTable' = put_item(dynamoTable, CallRecord(callId, CallStart0))
        /\ last' = None
        /\ UNCHANGED <<chimeTasks, kinesis, voiceTaskCache, callDetailCache, recorded>>
        /\ UNCHANGED transcriptVars

Next == Invoke \/ PutCallRecord

Spec == Init /\ [][Next]_vars

(***************************************************************************)
(* The offsets: a call with a record and a started task, and successful    *)
(* analyses of segments that end at any of SegmentEnds.                    *)
(***************************************************************************)
OffsetEvents ==
    {SuccessEvent("task1", isCaller, "neutral", SegmentStart5, en) :
        isCaller \in BOOLEAN, en \in SegmentEnds \cup BadTimes}
        \cup {SuccessEvent("task1", FALSE, "positive", st, SegmentEnd10) :
                st \in {SegmentStart5} \cup BadTimes}

InitOffsets ==
    /\ \E start \in CallStarts :
          dynamoTable =
              put_item(put_item(EmptyDict, CallRecord("call1", start)),
                       [PK |-> "vta#task1", SK |-> "VTA",
                        VoiceToneAnalysisTaskId |-> "task1", CallId |-> "call1"])
    /\ chimeTasks = DictSet(EmptyDict, "task1", "call1")
    /\ kinesis = <<>>
    /\ voiceTaskCache = [c \in Containers |->
                            IF c = "A" THEN DictSet(EmptyDict, "task1", "call1")
                            ELSE EmptyDict]
    /\ callDetailCache = [c \in Containers |-> EmptyDict]
    /\ last = None
    /\ recorded = {<<"task1", "call1">>}
    /\ TranscriptIdle

InvokeOffsets ==
    \E event \in OffsetEvents :
        /\ Len(kinesis) < MaxStream
        /\ lambda_handler("A", event, "none", "task1", Now)
        /\ UNCHANGED transcriptVars

NextOffsets == InvokeOffsets

SpecOffsets == InitOffsets /\ [][NextOffsets]_vars

(***************************************************************************)
(* The call event processor's specification: the module is imported under  *)
(* some environment, then handler is invoked with the results the batch    *)
(* processor gives.                                                        *)
(***************************************************************************)
MaxBatch == 2

Item(n) == [SegmentId |-> n]

\* an item that is false in "if item:"
NoItem == EmptyDict

\* what the batch processor reports for one record
Results ==
    {[successes |-> <<Item(1)>>, errors |-> <<>>],
     [successes |-> <<Item(2), NoItem, Item(1)>>, errors |-> <<>>],
     [successes |-> <<NoItem, Item(2)>>, errors |-> <<Item(9)>>],
     [errors |-> <<Item(9)>>]}

Error(isException, text) == [isException |-> isException, text |-> text]

TopErrors == {<<>>, <<Error(FALSE, "failed"), Error(TRUE, "KeyError")>>}

BatchResults ==
    LET batches == UNION {[1..n -> Results] : n \in 0..MaxBatch}
    IN  {[successes |-> ss, errors |-> es] : ss \in batches, es \in TopErrors}
            \cup {[successes |-> ss] : ss \in batches}

TranscriptEvents == {[Records |-> "batch"], [Records |-> "batch", state |-> <<Item(0)>>]}

Labels ==
    (DOMAIN MUTATION_FUNCTION_MAPPING) \cup {"Other Source", "amazon connect contact lens"}

Environs ==
    {[name \in {"APPSYNC_GRAPHQL_URL", "CALL_AUDIO_SOURCE"} |->
         IF name = "CALL_AUDIO_SOURCE" THEN label ELSE "https://appsync"] :
        label \in Labels}
        \cup {[name \in {"APPSYNC_GRAPHQL_URL"} |-> "https://appsync"],
              [name \in {"CALL_AUDIO_SOURCE"} |-> "Amazon Connect Contact Lens"]}

InitTranscript ==
    /\ dynamoTable = EmptyDict
    /\ chimeTasks = EmptyDict
    /\ kinesis = <<>>
    /\ voiceTaskCache = [c \in Containers |-> EmptyDict]
    /\ callDetailCache = [c \in Containers |-> EmptyDict]
    /\ last = None
    /\ recorded = {}
    /\ environ \in Environs
    /\ pc = "import"
    /\ CALL_AUDIO_SOURCE = None
    /\ MUTATION_FUNCTION_NAME = None
    /\ handled = None

Import == \E ssmFails \in BOOLEAN : ModuleImport(ssmFails)

HandleBatch ==
    \E event \in TranscriptEvents, results \in BatchResults : handler(event, results)

NextTranscript == Import \/ HandleBatch

SpecTranscript == InitTranscript /\ [][NextTranscript]_vars


(***************************************************************************)
(* Properties.  In a step of Spec that leaves last # None, last' describes *)
(* the invocation the step is: its container, event, fault, outcome and    *)
(* calls.                                                                  *)
(***************************************************************************)
VtaKey(taskId) == <<"vta#" \o taskId, "VTA">>

CdKey(callId) == <<"cd#" \o callId, "BOTH">>

\* how many times ops reads the table under partition key pk
Reads(ops, pk) ==
    Cardinality({i \in 1..Len(ops) : ops[i].op = "get_item" /\ ops[i].key = pk})

IsSuccess(l) == l.detail.detailStatus = "VoiceToneAnalysisSuccessful"

IsReady(l) == l.detail.detailStatus = "AnalyticsReady"

\* C1: once put_voice_task has recorded task T -> call C, a successful-
\* analysis event for T resolves to C and to nothing else, from the cache of
\* the container that recorded it as from the table in another container;
\* the lookup fails only when the table read itself fails.
C1_RecordedTaskResolves ==
    last # None =>
        LET l == last[1]
        IN  (IsSuccess(l) /\ \E C \in CallIds : <<l.detail.taskId, C>> \in recorded) =>
                /\ \A C \in CallIds :
                      <<l.detail.taskId, C>> \in recorded /\ l.callId # None
                          => l.callId = Some(C)
                /\ l.callId = None => l.fault = "get_item"

\* container B, its cache empty, resolves from the table a task that
\* container A recorded and holds in its cache
C1_Witness ==
    /\ last # None
    /\ last[1].container = "B"
    /\ IsSuccess(last[1])
    /\ last[1].detail.taskId = "task2"
    /\ last[1].callId = Some("call1")
    /\ last[1].ops[1] = [op |-> "get_item", key |-> "vta#task2"]
    /\ "task2" \in DOMAIN voiceTaskCache["A"]
    /\ <<"task2", "call1">> \in recorded

\* the offsets of the records on the stream
Utterances == {kinesis[i].Data.UtteranceEvent : i \in 1..Len(kinesis)}

\* C2: every emitted record has EndOffsetMillis - BeginOffsetMillis == 5000
\* exactly.
C2_WindowIsExactly5000 ==
    \A u \in Utterances :
        DSub(u.EndOffsetMillis, u.BeginOffsetMillis) = DFromInt(WindowMillis)

\* C3: every emitted record has offsets that are non-negative and ordered.
C3_OffsetsNonNegativeOrdered ==
    \A u \in Utterances :
        /\ DLeq(DZero, u.BeginOffsetMillis)
        /\ DLeq(DZero, u.EndOffsetMillis)
        /\ DLeq(u.BeginOffsetMillis, u.EndOffsetMillis)

TranscribeMutation == "execute_process_transcribe_event_api_mutation"

ContactLensMutation == "execute_process_contact_lens_event_api_mutation"

\* the dispatch the spec gives for the environment of the function
ExpectedDispatch ==
    IF "CALL_AUDIO_SOURCE" \notin DOMAIN environ THEN None
    ELSE IF environ["CALL_AUDIO_SOURCE"] = "Amazon Connect Contact Lens"
    THEN Some(ContactLensMutation)
    ELSE IF environ["CALL_AUDIO_SOURCE"] \in
                {"Demo Asterisk PBX Server", "Chime Voice Connector (SIPREC)",
                 "Genesys Cloud Audiohook Web Socket"}
    THEN Some(TranscribeMutation)
    ELSE None

\* C4: an unrecognized or unset audio source label gives no mutation
\* function and does not make the import raise; a recognized label gives the
\* contact lens mutation for "Amazon Connect Contact Lens" and the transcribe
\* mutation for the other three; every invocation passes that value as
\* api_mutation_fn.
C4_DispatchByAudioSource ==
    /\ pc \in {"ready", "import_failed: get_parameter"}
          => MUTATION_FUNCTION_NAME = ExpectedDispatch
    /\ pc \in {"import", "ready", "import_failed: environ", "import_failed: get_parameter"}
    /\ pc = "import_failed: environ" => "APPSYNC_GRAPHQL_URL" \notin DOMAIN environ
    /\ handled # None => handled[1].api_mutation_fn = ExpectedDispatch

\* the function imported with no audio source set has handled a batch and
\* passed no mutation function
C4_Witness ==
    /\ pc = "ready"
    /\ "CALL_AUDIO_SOURCE" \notin DOMAIN environ
    /\ MUTATION_FUNCTION_NAME = None
    /\ handled # None
    /\ handled[1].api_mutation_fn = None

RECURSIVE NestedSuccessesOf(_)
\* the items of the nested successes lists of the results, in order
NestedSuccessesOf(results) ==
    IF results = <<>> THEN <<>>
    ELSE (IF "successes" \in DOMAIN Head(results) THEN Head(results).successes ELSE <<>>)
             \o NestedSuccessesOf(Tail(results))

NonEmptyItem(item) == DOMAIN item # {}

\* C5: whatever the top-level errors, handler returns {"state": S} with S the
\* incoming state followed by exactly the non-empty items of the nested
\* successes of the top-level successes, in order.
C5_ErrorsLeaveTheStateAlone ==
    handled # None =>
        LET h == handled[1]
            incoming == IF "state" \in DOMAIN h.event THEN h.event.state ELSE <<>>
            tops == IF "successes" \in DOMAIN h.results THEN h.results.successes ELSE <<>>
        IN  /\ h.outcome = "returned"
            /\ h.response = Some([state |->
                   incoming \o SelectSeq(NestedSuccessesOf(tops), NonEmptyItem)])

\* a batch with top-level errors, one of them an exception, a nested error
\* and an empty item, whose state is the fold of the non-empty successes
C5_Witness ==
    /\ handled # None
    /\ "errors" \in DOMAIN handled[1].results
    /\ \E i \in 1..Len(handled[1].results.errors) :
          handled[1].results.errors[i].isException
    /\ handled[1].results.successes =
          <<[successes |-> <<Item(1)>>, errors |-> <<>>],
            [successes |-> <<NoItem, Item(2)>>, errors |-> <<Item(9)>>]>>
    /\ handled[1].response = Some([state |-> <<Item(0), Item(1), Item(2)>>])


\* the call id a task id maps to for container c: the cache's, else the
\* table's
MappedCall(c, taskId) ==
    IF taskId \in DOMAIN voiceTaskCache[c] THEN voiceTaskCache[c][taskId]
    ELSE dynamoTable[VtaKey(taskId)].CallId

TaskMisses(c, taskId) ==
    taskId \notin DOMAIN voiceTaskCache[c] /\ VtaKey(taskId) \notin DOMAIN dynamoTable

CallMisses(c, taskId) ==
    /\ ~TaskMisses(c, taskId)
    /\ MappedCall(c, taskId) \notin DOMAIN callDetailCache[c]
    /\ CdKey(MappedCall(c, taskId)) \notin DOMAIN dynamoTable

\* C6: a successful-analysis event whose task id is in neither the cache nor
\* the table, or whose call has a record in neither, ends in a fault, puts
\* nothing onto the stream and leaves no cache entry for the key that
\* missed.
C6_LookupMissFaults ==
    [][last' # None /\ IsSuccess(last'[1]) =>
          LET l == last'[1]
              c == l.container
              T == l.detail.taskId
          IN  /\ TaskMisses(c, T) =>
                    /\ l.outcome = "raised"
                    /\ kinesis' = kinesis
                    /\ T \notin DOMAIN voiceTaskCache'[c]
              /\ CallMisses(c, T) =>
                    /\ l.outcome = "raised"
                    /\ kinesis' = kinesis
                    /\ MappedCall(c, T) \notin DOMAIN callDetailCache'[c]]_vars

\* the task resolved from the table, the call record was missing: a fault,
\* nothing on the stream, no call record cached
C6_Witness ==
    /\ last # None
    /\ IsSuccess(last[1])
    /\ last[1].fault = "none"
    /\ last[1].outcome = "raised"
    /\ last[1].callId = Some("call2")
    /\ last[1].ops = <<[op |-> "get_item", key |-> "vta#task1"],
                       [op |-> "voiceTaskCache.set", key |-> "task1"],
                       [op |-> "get_item", key |-> "cd#call2"]>>
    /\ "call2" \notin DOMAIN callDetailCache[last[1].container]
    /\ kinesis = <<>>

\* C7: a successful-analysis event that returns puts exactly one record onto
\* the stream, an ADD_TRANSCRIPT_SEGMENT whose CallId and partition key are
\* the call recorded for the event's task; an AnalyticsReady event puts none.
C7_OneSegmentPerSuccess ==
    [][last' # None =>
          LET l == last'[1]
          IN  /\ IsSuccess(l) /\ l.outcome = "returned" =>
                    /\ Len(kinesis') = Len(kinesis) + 1
                    /\ SubSeq(kinesis', 1, Len(kinesis)) = kinesis
                    /\ LET r == kinesis'[Len(kinesis')]
                       IN  /\ r.Data.EventType = "ADD_TRANSCRIPT_SEGMENT"
                           /\ <<l.detail.taskId, r.Data.CallId>> \in recorded
                           /\ r.Data.CallId = MappedCall(l.container, l.detail.taskId)
                           /\ r.PartitionKey = r.Data.CallId
                           /\ r.StreamName = KINESIS_STREAM_NAME
              /\ IsSuccess(l) /\ l.outcome = "raised" => kinesis' = kinesis
              /\ IsReady(l) => kinesis' = kinesis]_vars

\* a segment of call2 is on the stream, put by the invocation that just
\* returned
C7_Witness ==
    /\ last # None
    /\ IsSuccess(last[1])
    /\ last[1].outcome = "returned"
    /\ Len(kinesis) = 1
    /\ kinesis[1].PartitionKey = "call2"
    /\ kinesis[1].Data.CallId = "call2"

\* C8: both lookups read the table only for a key the cache lacks, and then
\* once; a lookup that succeeds leaves the key in the cache; no entry of
\* either cache is ever removed or changed.
C8_CacheFirstLookup ==
    [][last' # None =>
          LET l == last'[1]
              c == l.container
          IN  /\ IsSuccess(l) =>
                    LET T == l.detail.taskId
                    IN  /\ Reads(l.ops, "vta#" \o T)
                              = IF T \in DOMAIN voiceTaskCache[c] THEN 0 ELSE 1
                        /\ l.callId # None =>
                              /\ T \in DOMAIN voiceTaskCache'[c]
                              /\ voiceTaskCache'[c][T] = l.callId[1]
                              /\ Reads(l.ops, "cd#" \o l.callId[1])
                                    = IF l.callId[1] \in DOMAIN callDetailCache[c]
                                      THEN 0 ELSE 1
                        /\ l.outcome = "returned" =>
                              l.callId[1] \in DOMAIN callDetailCache'[c]
              /\ \A c2 \in Containers :
                    /\ \A k \in DOMAIN callDetailCache[c2] :
                          /\ k \in DOMAIN callDetailCache'[c2]
                          /\ callDetailCache'[c2][k] = callDetailCache[c2][k]
                    /\ \A k \in DOMAIN voiceTaskCache[c2] :
                          /\ k \in DOMAIN voiceTaskCache'[c2]
                          /\ voiceTaskCache'[c2][k] = voiceTaskCache[c2][k]]_vars

\* an invocation served by the two caches alone: it read no table and put
\* its record
C8_Witness ==
    /\ last # None
    /\ IsSuccess(last[1])
    /\ last[1].outcome = "returned"
    /\ last[1].ops = <<[op |-> "put_record", key |-> last[1].callId[1]]>>
    /\ last[1].container = "B"

\* C9: every entry of a container's voiceTaskCache is in the table, under
\* ("vta#" + task id, "VTA"), with the same call id; AnalyticsReady writes
\* the cache right after the put to the table, and not at all when the start
\* of the task or the put fails.
C9_CacheBackedByTable ==
    /\ \A c \in Containers :
          \A T \in DOMAIN voiceTaskCache[c] :
              /\ VtaKey(T) \in DOMAIN dynamoTable
              /\ dynamoTable[VtaKey(T)].CallId = voiceTaskCache[c][T]
    /\ last # None /\ IsReady(last[1]) =>
          LET l == last[1]
          IN  /\ l.outcome = "raised" =>
                    \A i \in 1..Len(l.ops) : l.ops[i].op # "voiceTaskCache.set"
              /\ \A i \in 1..Len(l.ops) :
                    l.ops[i].op = "voiceTaskCache.set" =>
                        /\ i > 1
                        /\ l.ops[i - 1] = [op |-> "put_item", key |-> "vta#" \o l.ops[i].key]
              /\ l.outcome = "returned" =>
                    l.ops[Len(l.ops)].op = "voiceTaskCache.set"

\* the put of task2 failed after Chime started it: no cache holds task2
C9_Witness ==
    /\ last # None
    /\ IsReady(last[1])
    /\ last[1].fault = "put_item"
    /\ last[1].ops[2] = [op |-> "put_item", key |-> "vta#task2"]
    /\ "task2" \in DOMAIN chimeTasks
    /\ \A c \in Containers : "task2" \notin DOMAIN voiceTaskCache[c]
    /\ "task1" \in DOMAIN voiceTaskCache[last[1].container]

\* C10: an event of any other status changes nothing and calls nothing; an
\* AnalyticsReady event leaves callDetailCache alone; a successful-analysis
\* event starts no task and writes nothing to the table.
C10_Frame ==
    [][last' # None =>
          LET l == last'[1]
          IN  /\ ~IsReady(l) /\ ~IsSuccess(l) =>
                    /\ l.ops = <<>>
                    /\ l.outcome = "returned"
                    /\ UNCHANGED <<dynamoTable, chimeTasks, kinesis, voiceTaskCache,
                                   callDetailCache>>
              /\ IsReady(l) => UNCHANGED callDetailCache
              /\ IsSuccess(l) =>
                    /\ UNCHANGED <<dynamoTable, chimeTasks>>
                    /\ \A i \in 1..Len(l.ops) :
                          l.ops[i].op \notin {"start_voice_tone_analysis_task", "put_item"}]_vars

\* an event of another status arrived with tasks started, the table and a
\* cache filled and a record on the stream
C10_Witness ==
    /\ last # None
    /\ last[1].detail.detailStatus = "VoiceToneAnalysisFailed"
    /\ chimeTasks # EmptyDict
    /\ kinesis # <<>>
    /\ voiceTaskCache[last[1].container] # EmptyDict
    /\ callDetailCache[last[1].container] # EmptyDict

====
